---- MODULE Spec2Model ----
(***************************************************************************)
(* Job queue and status tracking of the IndexTTS wrappers.                 *)
(*                                                                         *)
(* The repository has two entry points that each run as their own process: *)
(*   webui.py       TaskQueue: a FIFO queue.Queue, one daemon worker       *)
(*                  thread, a status registry guarded by one lock;         *)
(*   api_server.py  task_storage / current_tasks dictionaries updated by   *)
(*                  FastAPI handlers and background coroutines.            *)
(* The variable program says which of the two processes a behaviour is.    *)
(*                                                                         *)
(* time.time() is modelled as a non-decreasing reading: every call returns *)
(* the previous reading or the next tick.  uuid4()[:8] is modelled as an   *)
(* identifier that was not handed out before.  The payload of a job        *)
(* (prompt, text, parameters) is opaque to the queue and left out.         *)
(***************************************************************************)
EXTENDS Integers, Sequences, FiniteSets, TLC

\* ---------------------------------------------------------------- bounds
MaxTasks == 2       \* jobs submitted in one behaviour
MaxTime == 2        \* last clock reading
MaxThreads == 2     \* Thread objects start_worker may create

\* ------------------------------------------------------ program constants
max_history == 50          \* TaskQueue.__init__(max_history=50)
execution_times_maxlen == 20

NoneVal == "None"
QUEUED == "queued"
RUNNING == "running"
COMPLETED == "completed"
FAILED == "failed"
TaskStatus == {QUEUED, RUNNING, COMPLETED, FAILED}

Ids == 1..MaxTasks
Threads == 1..MaxThreads
\* what Synthesize (tts.infer / tts.infer_fast) hands back: the output path
InferReturns == {"out.wav"}
\* str(e) of the exception Synthesize can raise
InferErrors == {"boom", ""}

VARIABLES
    program,          \* "webui" or "api_server"
    uuid_fresh,       \* whether the uuid4 draws of this run are pairwise distinct
    exited,           \* webui: the main thread has returned and the process is gone
    starting,         \* webui: start_worker calls that passed the test at line 145
    poll,             \* webui: per job, where its gen_single_with_queue caller is
    now,              \* last reading of time.time()
    \* ---- webui.py, TaskQueue
    tasks,            \* the Task objects ever constructed, by reference
    pending,          \* Task objects constructed by add_task, not yet put
    queue,            \* self.queue (FIFO of Task references)
    current_task,     \* self.current_task (a reference, 0 for None)
    task_history,     \* self.task_history (deque of references)
    execution_times,  \* self.execution_times (deque of durations)
    worker_thread,    \* self.worker_thread (a thread, 0 for None)
    is_running,       \* self.is_running
    lock,             \* self.lock: 0 when free, else the holding thread
    wpc,              \* position of each worker thread in _worker
    wtask,            \* local variable task of each worker thread
    wres,             \* outcome of the Synthesize call of each worker thread
    ret,              \* what get_task_result returned, when it was the last query
    snap,             \* what get_queue_status returned, when it was the last query
    \* ---- api_server.py
    task_storage,     \* task_storage: id -> Task
    current_tasks,    \* current_tasks: id -> time
    api_kind,         \* per task: "tts" (process_tts_task) or "demo" (process_demo_voice_task)
    api_pc,           \* position of each background coroutine
    api_resp,         \* the last HTTP response
    \* ---- history variables (not program state)
    started,          \* jobs in the order they were moved to Running
    overlapped,       \* whether two add_task calls ever overlapped in time
    dequeues,         \* per job: how often queue.get delivered it
    invocations,      \* per job: how often Synthesize was invoked for it
    outcome,          \* per job: what its Synthesize call did, and the value or message
    finished,         \* webui: the jobs in the order they reached a terminal status
    recorded,         \* webui: every duration ever appended to execution_times
    handed,           \* the ids drawn from uuid4, in the order they were drawn
    start_returned    \* webui: start_worker has returned and stop_worker was not called since

webVars == <<tasks, pending, queue, current_task, task_history, execution_times,
             worker_thread, is_running, lock, wpc, wtask, wres, ret, snap>>
apiVars == <<task_storage, current_tasks, api_kind, api_pc, api_resp>>
histVars == <<started, overlapped, dequeues, invocations, outcome, finished,
              recorded, handed, start_returned>>
procVars == <<program, uuid_fresh, exited, starting, poll>>
vars == <<procVars, now, webVars, apiVars, histVars>>

\* the process p is up
Up(p) == program = p /\ ~exited

\* ---------------------------------------------------------------- helpers
\* time.time(): the readings a call can return after the reading t
Time(t) == {t, t + 1} \cap (1..MaxTime)

\* faulty variant: a full deque drops its newest entry
DequeAppendDropNewest(d, x, n) ==
    IF Len(d) >= n THEN Append(SubSeq(d, 1, Len(d) - 1), x) ELSE Append(d, x)

\* collections.deque(maxlen=n).append(x): drops the oldest entry when full
DequeAppend(d, x, n) ==
    IF Len(d) >= n THEN Append(Tail(d), x) ELSE Append(d, x)

\* str(uuid.uuid4())[:8]: an identifier not handed out before
NewId(used) == CHOOSE i \in Ids \ used : \A j \in Ids \ used : i <= j

\* the values a uuid4 draw can take: any identifier, or, in the runs whose
\* draws are pairwise distinct, one that was not handed out before
Uuid4(used, again) == IF uuid_fresh THEN {NewId(used)} ELSE {NewId(used)} \cup again

\* a falsy Python value in `if error:` / `if result_path:`
Truthy(v) == v \notin {NoneVal, ""}

\* progress is kept in tenths: 0.1 -> 1, 0.3 -> 3, 1.0 -> 10; NoProgress is None
NoProgress == -1

\* api_server.py: the shape of an HTTP response
Response(op, code, task_id, status, result_url, error, progress) ==
    [op |-> op, code |-> code, task_id |-> task_id, status |-> status,
     result_url |-> result_url, error |-> error, progress |-> progress]

NoResponse == Response("none", 0, 0, NoneVal, NoneVal, NoneVal, NoProgress)

\* ------------------------------------------------------------------ Init
\* webui.py: Task(...) as constructed by add_task at time t
NewTask(i, t) ==
    [id |-> i, status |-> QUEUED, created_time |-> t, start_time |-> 0,
     end_time |-> 0, result_path |-> NoneVal, error_message |-> NoneVal]

\* what get_queue_status returns.  Its arithmetic is kept exact:
\* estimated_remaining, average_execution_time and estimated_wait_time are the
\* numerators of the figures over the common denominator den
\* (len(execution_times), or 1 when there is none); current_task is the id in
\* current_task_info, 0 when that is None
Snapshot(queue_size, current, elapsed, remaining, completed, average, wait, den) ==
    [taken |-> TRUE, queue_size |-> queue_size, current_task |-> current,
     elapsed_time |-> elapsed, estimated_remaining |-> remaining,
     total_completed |-> completed, average_execution_time |-> average,
     estimated_wait_time |-> wait, den |-> den]

NoSnapshot == [Snapshot(0, 0, 0, 0, 0, 0, 0, 1) EXCEPT !.taken = FALSE]
NoResult == [id |-> 0, task |-> 0]

\* A process that has been up for a while: PriorJobs jobs were submitted and
\* processed one after the other before the behaviour begins: the first of
\* them and the last PriorCompleted - 1 completed, the ones in between failed.  The
\* Task object of the k-th of them has the reference -k and the id -k.  The
\* clock reads 1 when the behaviour begins, so the readings of these jobs are
\* below 1: each was created and started at -2, the failed ones ended at once,
\* the completed ones one tick later.
PriorJobs == max_history - 1
PriorCompleted == execution_times_maxlen - 1
PriorTask(r) ==
    LET done == (0 - r) = 1 \/ (0 - r) > PriorJobs - PriorCompleted + 1
    IN [id |-> r, status |-> IF done THEN COMPLETED ELSE FAILED,
        created_time |-> 0 - 2, start_time |-> 0 - 2,
        end_time |-> IF done THEN 0 - 1 ELSE 0 - 2,
        result_path |-> IF done THEN "out.wav" ELSE NoneVal,
        error_message |-> IF done THEN NoneVal ELSE "boom"]
PriorHistory == [k \in 1..PriorJobs |-> 0 - k]
PriorTimes == [k \in 1..PriorCompleted |-> 1]

\* the state of TaskQueue after __init__ (and, for a history h with durations e,
\* after the jobs of h were processed by the worker thread th)
Boot(h, e, th) ==
    /\ exited = FALSE
    /\ starting = 0
    /\ poll = [r \in 1..MaxTasks |-> "none"]
    /\ now = 1
    /\ tasks = <<>>
    /\ pending = {}
    /\ queue = <<>>
    /\ current_task = 0
    /\ task_history = h
    /\ execution_times = e
    /\ worker_thread = th
    /\ is_running = (th # 0)
    /\ lock = 0
    /\ wpc = [t \in Threads |-> IF t = th THEN "while" ELSE "unborn"]
    /\ wtask = [t \in Threads |-> 0]
    /\ wres = [t \in Threads |-> NoneVal]
    /\ ret = NoResult
    /\ snap = NoSnapshot
    /\ task_storage = << >>
    /\ current_tasks = << >>
    /\ api_kind = [i \in Ids |-> "none"]
    /\ api_pc = [i \in Ids |-> "none"]
    /\ api_resp = NoResponse
    /\ started = <<>>
    /\ overlapped = FALSE
    /\ dequeues = [r \in 1..MaxTasks |-> 0]
    /\ invocations = [r \in 1..MaxTasks |-> 0]
    /\ outcome = [r \in 1..MaxTasks |-> [kind |-> "none", val |-> NoneVal]]
    /\ finished = h
    /\ recorded = e
    /\ handed = h
    /\ start_returned = (th # 0)

Init ==
    /\ program \in {"webui", "api_server"}
    /\ uuid_fresh = TRUE
    /\ Boot(<<>>, <<>>, 0)

\* webui.py after PriorJobs jobs
LongInit ==
    /\ program = "webui"
    /\ uuid_fresh = TRUE
    /\ Boot(PriorHistory, PriorTimes, 1)

\* either program, with uuid4 draws that may repeat
IdInit ==
    /\ program \in {"webui", "api_server"}
    /\ uuid_fresh = FALSE
    /\ Boot(<<>>, <<>>, 0)

\* the Task object behind a reference
Obj(r) == IF r < 0 THEN PriorTask(r) ELSE tasks[r]

\* ============================================================== webui.py
\* Thread.is_alive(): the thread was started and _worker has not returned
ThreadIsAlive(th) == th \in Threads /\ wpc[th] \notin {"unborn", "dead", "killed"}

\* faulty variant: start_worker without its guard
MayStartWorkerAlways == TRUE

\* the guard of start_worker: no worker thread yet, or the last one has ended
MayStartWorker == worker_thread = 0 \/ ~ThreadIsAlive(worker_thread)

\* TaskQueue.start_worker, called from the main thread
start_worker ==
    /\ Up("webui")
    /\ \E t \in Threads :
        /\ wpc[t] = "unborn"
        /\ \A u \in Threads : u < t => wpc[u] # "unborn"
        /\ IF MayStartWorker
           THEN /\ is_running' = TRUE
                /\ worker_thread' = t
                /\ wpc' = [wpc EXCEPT ![t] = "while"]
           ELSE UNCHANGED <<is_running, worker_thread, wpc>>
    /\ start_returned' = TRUE
    /\ UNCHANGED <<procVars, now, tasks, pending, queue, current_task, task_history,
                   execution_times, lock, wtask, wres, ret, snap, apiVars,
                   started, overlapped, dequeues, invocations, outcome, finished,
                   recorded, handed>>

\* TaskQueue.stop_worker
stop_worker ==
    /\ Up("webui")
    /\ is_running' = FALSE
    /\ start_returned' = FALSE
    /\ UNCHANGED <<procVars, now, tasks, pending, queue, current_task, task_history,
                   execution_times, worker_thread, lock, wpc, wtask, wres, ret, snap,
                   apiVars, started, overlapped, dequeues, invocations, outcome, finished,
                   recorded, handed>>

\* the Thread objects not yet created
Unborn == {t \in Threads : wpc[t] = "unborn"}

\* start_worker called by a thread that runs alongside other callers, first
\* half: the test of line 145 is passed (nothing guards the method)
start_worker_test ==
    /\ Up("webui")
    /\ starting < Cardinality(Unborn)
    /\ MayStartWorker
    /\ starting' = starting + 1
    /\ UNCHANGED <<program, uuid_fresh, exited, poll, now, webVars, apiVars, histVars>>

\* second half: is_running is set, the Thread is created and started
start_worker_create ==
    /\ Up("webui")
    /\ starting > 0
    /\ starting' = starting - 1
    /\ \E t \in Unborn :
        /\ \A u \in Unborn : t <= u
        /\ is_running' = TRUE
        /\ worker_thread' = t
        /\ wpc' = [wpc EXCEPT ![t] = "while"]
    /\ start_returned' = TRUE
    /\ UNCHANGED <<program, uuid_fresh, exited, poll, now, tasks, pending, queue,
                   current_task, task_history, execution_times, lock, wtask, wres,
                   ret, snap, apiVars, started, overlapped, dequeues, invocations, outcome, finished,
                   recorded, handed>>

\* __main__ after its finally block (stop_worker was the last call): the main
\* thread returns, nothing joins the worker, and the interpreter ends with its
\* daemon threads wherever they are
main_exit ==
    /\ Up("webui")
    /\ worker_thread # 0
    /\ ~is_running
    /\ exited' = TRUE
    /\ wpc' = [t \in Threads |-> IF ThreadIsAlive(t) THEN "killed" ELSE wpc[t]]
    /\ UNCHANGED <<program, uuid_fresh, starting, poll, now, tasks, pending, queue,
                   current_task, task_history, execution_times, worker_thread,
                   is_running, lock, wtask, wres, ret, snap, apiVars, histVars>>

UsedIds == {tasks[r].id : r \in 1..Len(tasks)}

\* TaskQueue.add_task, first half: the Task object is constructed (no lock held)
add_task_construct ==
    /\ Up("webui")
    /\ Len(tasks) < MaxTasks
    /\ \E i \in Uuid4(UsedIds, UsedIds) : \E t \in Time(now) :
        /\ now' = t
        /\ tasks' = Append(tasks, NewTask(i, t))
        /\ handed' = Append(handed, i)
    /\ pending' = pending \cup {Len(tasks) + 1}
    /\ overlapped' = (overlapped \/ pending # {})
    /\ UNCHANGED <<procVars, queue, current_task, task_history, execution_times,
                   worker_thread, is_running, lock, wpc, wtask, wres, ret, snap,
                   apiVars, started, dequeues, invocations, outcome, finished, recorded,
                   start_returned>>

\* faulty variant: the job is put at the head of the queue
QueuePutFront(q, r) == <<r>> \o q

\* queue.Queue.put
QueuePut(q, r) == Append(q, r)

\* TaskQueue.add_task, second half: put under the lock, return the id
add_task_put(r) ==
    /\ Up("webui")
    /\ r \in pending
    /\ lock = 0
    /\ queue' = QueuePut(queue, r)
    /\ pending' = pending \ {r}
    /\ UNCHANGED <<procVars, now, tasks, current_task, task_history, execution_times,
                   worker_thread, is_running, lock, wpc, wtask, wres, ret, snap,
                   apiVars, histVars>>

\* faulty variant: only the history is searched
LookupHistoryOnly(task_id) ==
    IF \E i \in 1..Len(task_history) : Obj(task_history[i]).id = task_id
    THEN task_history[CHOOSE k \in 1..Len(task_history) :
                          Obj(task_history[k]).id = task_id]
    ELSE 0

\* the lookup of get_task_result: current task first, then the history
LookupTask(task_id) ==
    IF current_task # 0 /\ Obj(current_task).id = task_id
    THEN current_task
    ELSE IF \E i \in 1..Len(task_history) : Obj(task_history[i]).id = task_id
         THEN LET i == CHOOSE k \in 1..Len(task_history) :
                         /\ Obj(task_history[k]).id = task_id
                         /\ \A m \in 1..(k - 1) : Obj(task_history[m]).id # task_id
              IN task_history[i]
         ELSE 0

\* the ids a caller asks for: those the behaviour hands out, and the oldest of
\* the process's earlier jobs
QueryIds == Ids \cup {0 - 1}

\* faulty variant: the entry that is returned is taken out of the history
get_task_result_take(task_id) ==
    /\ Up("webui")
    /\ lock = 0
    /\ ret' = [id |-> task_id, task |-> LookupTask(task_id)]
    /\ snap' = NoSnapshot
    /\ task_history' = SelectSeq(task_history, LAMBDA x : x # LookupTask(task_id))
    /\ UNCHANGED <<procVars, now, tasks, pending, queue, current_task,
                   execution_times, worker_thread, is_running, lock,
                   wpc, wtask, wres, apiVars, histVars>>

\* TaskQueue.get_task_result: returns the Task object itself, or None (0)
get_task_result(task_id) ==
    /\ Up("webui")
    /\ lock = 0
    /\ ret' = [id |-> task_id, task |-> LookupTask(task_id)]
    /\ snap' = NoSnapshot
    /\ UNCHANGED <<procVars, now, tasks, pending, queue, current_task,
                   task_history, execution_times, worker_thread, is_running, lock,
                   wpc, wtask, wres, apiVars, histVars>>

RECURSIVE Sum(_)
Sum(d) == IF d = <<>> THEN 0 ELSE Head(d) + Sum(Tail(d))
Max(a, b) == IF a >= b THEN a ELSE b

\* statistics.mean(d) as a numerator over len(d); it raises StatisticsError for
\* an empty d, which is kept as a value no sum of durations can take
StatisticsError == -1
mean(d) == IF d = <<>> THEN StatisticsError ELSE Sum(d)

\* faulty variant: the mean is taken without looking at the deque first
AverageUnguarded(times) == mean(times)

\* statistics.mean(self.execution_times) if self.execution_times else 0
average_execution_time(times) == IF times # <<>> THEN mean(times) ELSE 0

\* faulty variant: the difference is returned as it is
_estimate_remaining_unclipped(cur, times, t) ==
    IF cur = 0 \/ times = <<>>
    THEN 0
    ELSE mean(times) - (t - Obj(cur).start_time) * Len(times)

\* faulty variant: the rest of the current job is left out
_estimate_wait_queue_only(queue_size, cur, times, t) ==
    IF queue_size = 0 \/ times = <<>>
    THEN 0
    ELSE queue_size * mean(times)

\* TaskQueue._estimate_remaining_time with time.time() = t, as a numerator over
\* len(execution_times): max(0, mean - elapsed)
_estimate_remaining_time(cur, times, t) ==
    IF cur = 0 \/ times = <<>>
    THEN 0
    ELSE Max(0, mean(times) - (t - Obj(cur).start_time) * Len(times))

\* TaskQueue._estimate_wait_time(queue_size), as a numerator over
\* len(execution_times): current_remaining + queue_size * mean
_estimate_wait_time(queue_size, cur, times, t) ==
    IF queue_size = 0 \/ times = <<>>
    THEN 0
    ELSE _estimate_remaining_time(cur, times, t) + queue_size * mean(times)

\* len([t for t in self.task_history if t.status == TaskStatus.COMPLETED])
total_completed(h) == Cardinality({k \in 1..Len(h) : Obj(h[k]).status = COMPLETED})

\* the clock after a call of time.time() that is made only when read holds
TimeIf(read, t) == IF read THEN Time(t) ELSE {t}

\* TaskQueue.get_queue_status: the whole body runs under the lock; time.time()
\* is read for elapsed_time and once in each call of _estimate_remaining_time
\* that gets past its first test
get_queue_status ==
    /\ Up("webui")
    /\ lock = 0
    /\ LET queue_size == Len(queue)
           cur == current_task
           times == execution_times
       IN \E t1 \in TimeIf(cur # 0, now) :
          \E t2 \in TimeIf(cur # 0 /\ times # <<>>, t1) :
          \E t3 \in TimeIf(cur # 0 /\ times # <<>> /\ queue_size # 0, t2) :
            /\ now' = t3
            /\ snap' = Snapshot(queue_size,
                                IF cur # 0 THEN Obj(cur).id ELSE 0,
                                IF cur # 0 THEN t1 - Obj(cur).start_time ELSE 0,
                                IF cur # 0 THEN _estimate_remaining_time(cur, times, t2)
                                           ELSE 0,
                                total_completed(task_history),
                                average_execution_time(times),
                                _estimate_wait_time(queue_size, cur, times, t3),
                                IF times = <<>> THEN 1 ELSE Len(times))
    /\ ret' = NoResult
    /\ UNCHANGED <<procVars, tasks, pending, queue, current_task,
                   task_history, execution_times, worker_thread, is_running, lock,
                   wpc, wtask, wres, apiVars, histVars>>

\* ------------------------------------------------- gen_single_with_queue
\* The caller of add_task for the job r polls for its result.  poll[r] is
\* "none" before the loop, "loop" at the loop test, "found" when
\* get_task_result has handed it the Task, and "completed", "failed" or
\* "timeout" once it has returned.
GotoPoll(r, l) == poll' = [poll EXCEPT ![r] = l]

\* the readings time.time() can return after at most n calls
TimeAfter(n, t) == {u \in t..(t + n) : u <= MaxTime}

\* the number of time.time() calls get_queue_status makes
QueueStatusReads ==
    IF current_task = 0 THEN 0
    ELSE IF execution_times = <<>> THEN 1
    ELSE IF queue = <<>> THEN 2 ELSE 3

\* add_task has returned the id: max_wait_time = 300; start_wait = time.time()
g_wait(r) ==
    /\ Up("webui")
    /\ r \in 1..Len(tasks)
    /\ r \notin pending
    /\ uuid_fresh
    /\ poll[r] = "none"
    /\ GotoPoll(r, "loop")
    /\ now' \in Time(now)
    /\ UNCHANGED <<program, uuid_fresh, exited, starting, webVars, apiVars, histVars>>

\* faulty variant: a caller that gives up takes its job out of the queue
g_timeout_cancel(r) ==
    /\ Up("webui")
    /\ poll[r] = "loop"
    /\ GotoPoll(r, "timeout")
    /\ now' \in Time(now)
    /\ queue' = SelectSeq(queue, LAMBDA x : x # r)
    /\ UNCHANGED <<program, uuid_fresh, exited, starting, tasks, pending,
                   current_task, task_history, execution_times, worker_thread,
                   is_running, lock, wpc, wtask, wres, ret, snap, apiVars, histVars>>

\* the loop test fails: time.time() - start_wait has reached max_wait_time.
\* The model's clock does not count the 300 seconds, so the test may fail at
\* any pass.  The caller returns the time-out message and does nothing else.
g_timeout(r) ==
    /\ Up("webui")
    /\ poll[r] = "loop"
    /\ GotoPoll(r, "timeout")
    /\ now' \in Time(now)
    /\ UNCHANGED <<program, uuid_fresh, exited, starting, webVars, apiVars, histVars>>

\* the loop test passes and get_task_result(task_id) is called; when it returns
\* None the two status tests fail, get_queue_status is called and the caller
\* sleeps
g_lookup(r) ==
    /\ Up("webui")
    /\ poll[r] = "loop"
    /\ lock = 0
    /\ IF LookupTask(tasks[r].id) # 0
       THEN /\ GotoPoll(r, "found")
            /\ now' \in Time(now)
       ELSE /\ GotoPoll(r, "loop")
            /\ now' \in TimeAfter(1 + QueueStatusReads, now)
    /\ UNCHANGED <<program, uuid_fresh, exited, starting, webVars, apiVars, histVars>>

\* the Task object the caller of job r holds once get_task_result has found
\* its id: the ids of a run with pollers are pairwise distinct, so it is the
\* caller's own job, wherever the registry keeps it by now
Held(r) == tasks[r]

\* the fields of the Task that was handed out are read, without the lock
g_read(r) ==
    /\ Up("webui")
    /\ poll[r] = "found"
    /\ LET task == Held(r)
       IN IF task.status = COMPLETED
          THEN GotoPoll(r, "saw_completed") /\ now' = now
          ELSE IF task.status = FAILED
          THEN GotoPoll(r, "saw_failed") /\ now' = now
          ELSE /\ GotoPoll(r, "loop")
               /\ now' \in Time(now)
    /\ UNCHANGED <<program, uuid_fresh, exited, starting, webVars, apiVars, histVars>>

\* the caller returns task.result_path, or the message made of
\* task.error_message, read without the lock after the status; the position
\* records whether the field was still None
g_return(r) ==
    /\ Up("webui")
    /\ poll[r] \in {"saw_completed", "saw_failed"}
    /\ LET task == Held(r)
       IN IF poll[r] = "saw_completed"
          THEN GotoPoll(r, IF task.result_path = NoneVal
                           THEN "completed_unset" ELSE "completed")
          ELSE GotoPoll(r, IF task.error_message = NoneVal
                           THEN "failed_unset" ELSE "failed")
    /\ UNCHANGED <<program, uuid_fresh, exited, starting, now, webVars, apiVars,
                   histVars>>

\* one step of the caller that submitted the job r
gen_single_with_queue(r) ==
    g_wait(r) \/ g_timeout(r) \/ g_lookup(r) \/ g_read(r) \/ g_return(r)

\* ------------------------------------------------------ TaskQueue._worker
Goto(t, l) == wpc' = [wpc EXCEPT ![t] = l]

\* while self.is_running:
w_while(t) ==
    /\ Up("webui")
    /\ wpc[t] = "while"
    /\ IF is_running THEN Goto(t, "get") ELSE Goto(t, "dead")
    /\ UNCHANGED <<procVars, now, tasks, pending, queue, current_task, task_history,
                   execution_times, worker_thread, is_running, lock, wtask, wres,
                   ret, snap, apiVars, histVars>>

\* faulty variant: the newest item is delivered (a LifoQueue)
QueueGetLast(q) == [item |-> q[Len(q)], rest |-> SubSeq(q, 1, Len(q) - 1)]

\* faulty variant: the item is delivered and left in the queue
QueueGetPeek(q) == [item |-> Head(q), rest |-> q]

\* queue.Queue.get on a non-empty queue: the item delivered and the queue left
QueueGet(q) == [item |-> Head(q), rest |-> Tail(q)]

\* faulty variant: queue.get() without a timeout keeps waiting
AfterEmptyBlock == "get"

\* where the worker goes when queue.get(timeout=1) raises queue.Empty
AfterEmpty == "while"

\* task = self.queue.get(timeout=1); queue.Empty sends the loop back to its test
w_get(t) ==
    /\ Up("webui")
    /\ wpc[t] = "get"
    /\ IF queue # <<>>
       THEN /\ wtask' = [wtask EXCEPT ![t] = QueueGet(queue).item]
            /\ queue' = QueueGet(queue).rest
            /\ dequeues' = [dequeues EXCEPT ![QueueGet(queue).item] = @ + 1]
            /\ Goto(t, "start1")
       ELSE /\ Goto(t, AfterEmpty)
            /\ UNCHANGED <<wtask, queue, dequeues>>
    /\ UNCHANGED <<procVars, now, tasks, pending, current_task, task_history,
                   execution_times, worker_thread, is_running, lock, wres, ret, snap,
                   apiVars, started, overlapped, invocations, outcome, finished, recorded, handed,
                   start_returned>>

\* faulty variant: the block is entered without taking the lock
AcquireNothing(t) == lock' = lock

\* faulty variant: the block is left with the lock still held
ReleaseNothing(t) == lock' = lock

\* with self.lock: (entering a block of the worker)
Acquire(t) == lock = 0 /\ lock' = t
Release(t) == lock' = 0

\* with self.lock: self.current_task = task
w_start1(t) ==
    /\ Up("webui")
    /\ wpc[t] = "start1"
    /\ Acquire(t)
    /\ current_task' = wtask[t]
    /\ Goto(t, "start2")
    /\ UNCHANGED <<procVars, now, tasks, pending, queue, task_history, execution_times,
                   worker_thread, is_running, wtask, wres, ret, snap, apiVars, histVars>>

\* faulty variant: the start time is written, the status is not
MarkRunningNoStatus(tk, r, tm) == [tk EXCEPT ![r].start_time = tm]

\* task.status = TaskStatus.RUNNING; task.start_time = time.time()
MarkRunning(tk, r, tm) == [tk EXCEPT ![r].status = RUNNING, ![r].start_time = tm]

\* the rest of the first block: the task is marked, the lock is released and
\* tts_instance.infer / infer_fast is entered
w_start2(t) ==
    /\ Up("webui")
    /\ wpc[t] = "start2"
    /\ \E tm \in Time(now) :
        /\ now' = tm
        /\ tasks' = MarkRunning(tasks, wtask[t], tm)
    /\ Release(t)
    /\ started' = Append(started, wtask[t])
    /\ invocations' = [invocations EXCEPT ![wtask[t]] = @ + 1]
    /\ Goto(t, "infer")
    /\ UNCHANGED <<procVars, pending, queue, current_task, task_history,
                   execution_times, worker_thread, is_running, wtask, wres, ret, snap,
                   apiVars, overlapped, dequeues, outcome, finished, recorded, handed,
                   start_returned>>

\* faulty variant: the exception is swallowed and the loop goes on
AfterInferSwallow(kind) == IF kind = "return" THEN "done1" ELSE "while"

\* faulty variant: the exception is not caught and ends the thread
AfterInferCrash(kind) == IF kind = "return" THEN "done1" ELSE "dead"

\* where the worker goes when Synthesize has returned / has raised
AfterInfer(kind) == IF kind = "return" THEN "done1" ELSE "fail1"

\* tts_instance.infer / infer_fast returns a result or raises
w_infer(t) ==
    /\ Up("webui")
    /\ wpc[t] = "infer"
    /\ \E kind \in {"return", "raise"} :
        \E v \in (IF kind = "return" THEN InferReturns ELSE InferErrors) :
            /\ wres' = [wres EXCEPT ![t] = v]
            /\ outcome' = [outcome EXCEPT ![wtask[t]] = [kind |-> kind, val |-> v]]
            /\ Goto(t, AfterInfer(kind))
    /\ UNCHANGED <<procVars, now, tasks, pending, queue, current_task, task_history,
                   execution_times, worker_thread, is_running, lock, wtask, ret, snap,
                   apiVars, started, overlapped, dequeues, invocations, finished, recorded, handed,
                   start_returned>>

\* with self.lock: task.status = TaskStatus.COMPLETED
w_done1(t) ==
    /\ Up("webui")
    /\ wpc[t] = "done1"
    /\ Acquire(t)
    /\ tasks' = [tasks EXCEPT ![wtask[t]].status = COMPLETED]
    /\ Goto(t, "done2")
    /\ UNCHANGED <<procVars, now, pending, queue, current_task, task_history,
                   execution_times, worker_thread, is_running, wtask, wres, ret, snap,
                   apiVars, histVars>>

\* faulty variant: the end time is never written
MarkEndedNever(tk, r, tm) == tk

\* task.end_time = time.time()
MarkEnded(tk, r, tm) == [tk EXCEPT ![r].end_time = tm]

\* task.end_time = time.time()
w_done2(t) ==
    /\ Up("webui")
    /\ wpc[t] = "done2"
    /\ \E tm \in Time(now) :
        /\ now' = tm
        /\ tasks' = MarkEnded(tasks, wtask[t], tm)
    /\ Goto(t, "done3")
    /\ UNCHANGED <<procVars, pending, queue, current_task, task_history,
                   execution_times, worker_thread, is_running, lock, wtask, wres,
                   ret, snap, apiVars, histVars>>

\* faulty variant: the history grows without bound
HistoryAppendKeepAll(h, r) == Append(h, r)

\* self.task_history.append(task)
HistoryAppend(h, r) == DequeAppend(h, r, max_history)

\* faulty variant: the thread ends after its first job
AfterJobExit == "dead"

\* where the worker goes after finally: self.queue.task_done()
AfterJob == "while"

\* self.current_task = None, the lock is released, finally: self.queue.task_done()
LeaveBlock(t) ==
    /\ current_task' = 0
    /\ Release(t)
    /\ wtask' = [wtask EXCEPT ![t] = 0]
    /\ wres' = [wres EXCEPT ![t] = NoneVal]
    /\ Goto(t, AfterJob)

\* task.result_path = result
RecordResult(tk, r, v) == [tk EXCEPT ![r].result_path = v]

\* faulty variant: the message is stored in result_path
RecordErrorInResult(tk, r, v) == [tk EXCEPT ![r].result_path = v]

\* task.error_message = str(e)
RecordError(tk, r, v) == [tk EXCEPT ![r].error_message = v]

\* task.result_path = result; the duration goes to execution_times, the task to
\* task_history; the rest of the block
w_done3(t) ==
    /\ Up("webui")
    /\ wpc[t] = "done3"
    /\ tasks' = RecordResult(tasks, wtask[t], wres[t])
    /\ execution_times' =
          DequeAppend(execution_times,
                      tasks[wtask[t]].end_time - tasks[wtask[t]].start_time,
                      execution_times_maxlen)
    /\ task_history' = HistoryAppend(task_history, wtask[t])
    /\ recorded' = Append(recorded, tasks[wtask[t]].end_time - tasks[wtask[t]].start_time)
    /\ finished' = Append(finished, wtask[t])
    /\ LeaveBlock(t)
    /\ UNCHANGED <<procVars, now, pending, queue, worker_thread, is_running,
                   ret, snap, apiVars, started, overlapped, dequeues, invocations,
                   outcome, handed,
                   start_returned>>

\* except Exception as e: with self.lock: task.status = TaskStatus.FAILED
w_fail1(t) ==
    /\ Up("webui")
    /\ wpc[t] = "fail1"
    /\ Acquire(t)
    /\ tasks' = [tasks EXCEPT ![wtask[t]].status = FAILED]
    /\ Goto(t, "fail2")
    /\ UNCHANGED <<procVars, now, pending, queue, current_task, task_history,
                   execution_times, worker_thread, is_running, wtask, wres, ret, snap,
                   apiVars, histVars>>

\* task.end_time = time.time()
w_fail2(t) ==
    /\ Up("webui")
    /\ wpc[t] = "fail2"
    /\ \E tm \in Time(now) :
        /\ now' = tm
        /\ tasks' = MarkEnded(tasks, wtask[t], tm)
    /\ Goto(t, "fail3")
    /\ UNCHANGED <<procVars, pending, queue, current_task, task_history,
                   execution_times, worker_thread, is_running, lock, wtask, wres,
                   ret, snap, apiVars, histVars>>

\* task.error_message = str(e); the task goes to task_history; the rest of the block
w_fail3(t) ==
    /\ Up("webui")
    /\ wpc[t] = "fail3"
    /\ tasks' = RecordError(tasks, wtask[t], wres[t])
    /\ task_history' = HistoryAppend(task_history, wtask[t])
    /\ finished' = Append(finished, wtask[t])
    /\ LeaveBlock(t)
    /\ UNCHANGED <<procVars, now, pending, queue, execution_times,
                   worker_thread, is_running, ret, snap, apiVars, started, overlapped,
                   dequeues, invocations, outcome, recorded, handed,
                   start_returned>>

\* one step of the worker thread t
_worker(t) ==
    \/ w_while(t) \/ w_get(t)
    \/ w_start1(t) \/ w_start2(t) \/ w_infer(t)
    \/ w_done1(t) \/ w_done2(t) \/ w_done3(t)
    \/ w_fail1(t) \/ w_fail2(t) \/ w_fail3(t)

\* the operations of webui.py that change the queue or the registry
WebWork ==
    \/ start_worker
    \/ stop_worker
    \/ add_task_construct
    \/ \E r \in 1..MaxTasks : add_task_put(r)
    \/ \E t \in Threads : _worker(t)

\* the queries of webui.py
WebQuery == get_queue_status \/ \E i \in QueryIds : get_task_result(i)

\* ========================================================= api_server.py
\* api_server.py: Task(id, status="queued", created_time=time.time(), ...)
NewApiTask(i, t) ==
    [id |-> i, status |-> QUEUED, created_time |-> t, start_time |-> 0,
     end_time |-> 0, result_path |-> NoneVal, error_message |-> NoneVal,
     progress |-> 0]

\* create_task: the storage after the new Task is stored under its id
create_task(ts, i, t) == (i :> NewApiTask(i, t)) @@ ts

\* get_task
get_task(ts, i) == IF i \in DOMAIN ts THEN ts[i] ELSE NoneVal

\* faulty variant: the result path is not stored
update_task_status_no_result(ts, i, status, progress, error, result_path, t) ==
    IF i \in DOMAIN ts
    THEN [ts EXCEPT ![i] =
            [@ EXCEPT
               !.status = status,
               !.progress = IF progress # NoProgress THEN progress ELSE @,
               !.error_message = IF Truthy(error) THEN error ELSE @,
               !.start_time = IF status = RUNNING THEN t ELSE @,
               !.end_time = IF status \in {COMPLETED, FAILED} THEN t ELSE @]]
    ELSE ts

\* update_task_status(task_id, status, progress, error, result_path), time.time() = t
update_task_status(ts, i, status, progress, error, result_path, t) ==
    IF i \in DOMAIN ts
    THEN [ts EXCEPT ![i] =
            [@ EXCEPT
               !.status = status,
               !.progress = IF progress # NoProgress THEN progress ELSE @,
               !.error_message = IF Truthy(error) THEN error ELSE @,
               !.result_path = IF Truthy(result_path) THEN result_path ELSE @,
               !.start_time = IF status = RUNNING THEN t ELSE @,
               !.end_time = IF status \in {COMPLETED, FAILED} THEN t ELSE @]]
    ELSE ts

\* the check of generate_tts that rejects the request: the status code it
\* raises, 0 when the request passes
Validate(text_blank, reference_audio) ==
    IF text_blank THEN 400
    ELSE IF reference_audio = NoneVal THEN 400
    ELSE IF reference_audio = "missing.wav" THEN 404
    ELSE 0

\* except Exception as e: raise HTTPException(status_code=500, ...) also
\* catches the HTTPException raised by the checks
GenerateStatus(raised) == IF raised # 0 THEN 500 ELSE 200

\* no coroutine is between its first and last statement: process_tts_task has
\* no await, so the event loop runs nothing else until it ends
LoopIdle == \A i \in Ids : api_pc[i] \in {"none", "scheduled", "finished"}

\* the ids a repeated uuid4 draw is modelled for: those whose coroutine has ended
Recyclable == {i \in DOMAIN task_storage : api_pc[i] = "finished"}

\* the request is accepted: create_task, current_tasks[task_id] = time.time(),
\* background_tasks.add_task(...)
Accept(op, kind) ==
    /\ Len(handed) < MaxTasks
    /\ \E i \in Uuid4(DOMAIN task_storage, Recyclable) :
        \E t \in Time(now) : \E t2 \in Time(t) :
           /\ now' = t2
           /\ handed' = Append(handed, i)
           /\ task_storage' = create_task(task_storage, i, t)
           /\ current_tasks' = (i :> t2) @@ current_tasks
           /\ api_kind' = [api_kind EXCEPT ![i] = kind]
           /\ api_pc' = [api_pc EXCEPT ![i] = "scheduled"]
           /\ api_resp' = Response(op, GenerateStatus(0), i, NoneVal, NoneVal,
                                   NoneVal, NoProgress)

\* the request is rejected with the status code the handler ends with
Reject(op, raised) ==
    /\ api_resp' = Response(op, GenerateStatus(raised), 0, NoneVal, NoneVal, NoneVal,
                            NoProgress)
    /\ UNCHANGED <<now, task_storage, current_tasks, api_kind, api_pc, handed>>

\* POST /api/tts/generate
generate_tts ==
    /\ program = "api_server"
    /\ LoopIdle
    /\ \E text_blank \in BOOLEAN, reference_audio \in {NoneVal, "missing.wav", "ref.wav"} :
        LET raised == Validate(text_blank, reference_audio)
        IN IF raised # 0 THEN Reject("generate", raised) ELSE Accept("generate", "tts")
    /\ UNCHANGED <<procVars, webVars, started, overlapped, dequeues,
                   invocations, outcome, finished, recorded, start_returned>>

\* the check of use_demo_voice that rejects the request, 0 when it passes;
\* demo_path is what get_demo_audio_path returned
ValidateDemo(text_blank, demo_path) ==
    IF text_blank THEN 400
    ELSE IF demo_path = NoneVal THEN 404
    ELSE 0

\* POST /api/demo/use
use_demo_voice ==
    /\ program = "api_server"
    /\ LoopIdle
    /\ \E text_blank \in BOOLEAN, demo_path \in {NoneVal, "demo.wav"} :
        LET raised == ValidateDemo(text_blank, demo_path)
        IN IF raised # 0 THEN Reject("demo", raised) ELSE Accept("demo", "demo")
    /\ UNCHANGED <<procVars, webVars, started, overlapped, dequeues,
                   invocations, outcome, finished, recorded, start_returned>>

\* process_tts_task / process_demo_voice_task begins:
\* update_task_status(task_id, "running", 0.1)
p_begin(i) ==
    /\ program = "api_server"
    /\ api_pc[i] = "scheduled"
    /\ LoopIdle
    /\ \E t \in Time(now) :
        /\ now' = t
        /\ task_storage' = update_task_status(task_storage, i, RUNNING, 1, NoneVal,
                                              NoneVal, t)
    /\ api_pc' = [api_pc EXCEPT ![i] = "running"]
    /\ started' = Append(started, i)
    /\ UNCHANGED <<procVars, webVars, current_tasks, api_kind, api_resp, overlapped,
                   dequeues, invocations, outcome, finished, recorded, handed,
                   start_returned>>

\* update_task_status(task_id, "running", 0.3); tts_instance.infer is entered
EnterInfer(i) ==
    /\ \E t \in Time(now) :
        /\ now' = t
        /\ task_storage' = update_task_status(task_storage, i, RUNNING, 3, NoneVal,
                                              NoneVal, t)
    /\ api_pc' = [api_pc EXCEPT ![i] = "infer"]
    /\ invocations' = [invocations EXCEPT ![i] = @ + 1]
    /\ UNCHANGED <<current_tasks, outcome>>

\* faulty variant: the task is left in current_tasks
DelCurrentNothing(ct, i) == ct

\* finally: if task_id in current_tasks: del current_tasks[task_id]
DelCurrent(ct, i) == [j \in DOMAIN ct \ {i} |-> ct[j]]

\* except Exception as e: update_task_status(task_id, "failed", error=str(e));
\* finally: the task leaves current_tasks
FailTask(i, m) ==
    /\ \E t \in Time(now) :
        /\ now' = t
        /\ task_storage' = update_task_status(task_storage, i, FAILED, NoProgress, m,
                                              NoneVal, t)
    /\ outcome' = [outcome EXCEPT ![i] = [kind |-> "raise", val |-> m]]
    /\ current_tasks' = DelCurrent(current_tasks, i)
    /\ api_pc' = [api_pc EXCEPT ![i] = "finished"]

\* process_tts_task, up to the call of tts_instance.infer (reference_audio was
\* checked by generate_tts, so the ValueError is not raised)
p_progress(i) ==
    /\ program = "api_server"
    /\ api_kind[i] = "tts"
    /\ api_pc[i] = "running"
    /\ EnterInfer(i)
    /\ UNCHANGED <<procVars, webVars, api_kind, api_resp, started, overlapped,
                   dequeues, finished, recorded, handed,
                   start_returned>>

\* str(e) of the ValueError raised when the demo audio is no longer found
DemoNotFound == "Demo audio not found"

\* process_demo_voice_task, up to the call of tts_instance.infer: the demos
\* directory is scanned again and the audio may be gone
d_progress(i) ==
    /\ program = "api_server"
    /\ api_kind[i] = "demo"
    /\ api_pc[i] = "running"
    /\ \E found \in BOOLEAN :
        IF found
        THEN EnterInfer(i)
        ELSE FailTask(i, DemoNotFound) /\ UNCHANGED invocations
    /\ UNCHANGED <<procVars, webVars, api_kind, api_resp, started, overlapped,
                   dequeues, finished, recorded, handed,
                   start_returned>>

\* result_path = output_path if os.path.exists(output_path) else result
ResultPath(exists, result) == IF exists THEN "out.wav" ELSE result

\* tts_instance.infer returns or raises; the task is marked, current_tasks cleaned
p_infer(i) ==
    /\ program = "api_server"
    /\ api_pc[i] = "infer"
    /\ \/ /\ \E t \in Time(now) : \E exists \in BOOLEAN, result \in InferReturns :
               /\ now' = t
               /\ task_storage' = update_task_status(task_storage, i, COMPLETED, 10,
                                       NoneVal, ResultPath(exists, result), t)
               /\ outcome' = [outcome EXCEPT ![i] =
                                  [kind |-> "return", val |-> ResultPath(exists, result)]]
          /\ current_tasks' = DelCurrent(current_tasks, i)
          /\ api_pc' = [api_pc EXCEPT ![i] = "finished"]
       \/ \E m \in InferErrors : FailTask(i, m)
    /\ UNCHANGED <<procVars, webVars, api_kind, api_resp, started, overlapped,
                   dequeues, invocations, finished, recorded, handed,
                   start_returned>>

\* one step of the background coroutine of a task submitted by generate_tts
process_tts_task(i) ==
    api_kind[i] = "tts" /\ (p_begin(i) \/ p_progress(i) \/ p_infer(i))

\* one step of the background coroutine of a task submitted by use_demo_voice
process_demo_voice_task(i) ==
    api_kind[i] = "demo" /\ (p_begin(i) \/ d_progress(i) \/ p_infer(i))

\* GET /api/tts/status/{task_id}
get_task_status(i) ==
    /\ program = "api_server"
    /\ LoopIdle
    /\ LET task == get_task(task_storage, i)
       IN IF i \notin DOMAIN task_storage
          THEN api_resp' = Response("status", 404, i, NoneVal, NoneVal, NoneVal,
                                    NoProgress)
          ELSE api_resp' = Response("status", 200, task.id, task.status,
                                    IF Truthy(task.result_path) THEN "url" ELSE NoneVal,
                                    task.error_message, task.progress)
    /\ UNCHANGED <<procVars, now, webVars, task_storage, current_tasks, api_kind,
                   api_pc, histVars>>

\* os.path.exists(task.result_path): the stored path is output_path, found to
\* exist when it was stored, or the path Synthesize returned; no operation of
\* the server removes an output file
FileExists(path) == path \in InferReturns

\* GET /api/tts/result/{task_id}; the detail of an error answer is kept in error
api_get_task_result(i) ==
    /\ program = "api_server"
    /\ LoopIdle
    /\ LET task == get_task(task_storage, i)
       IN IF i \notin DOMAIN task_storage
          THEN api_resp' = Response("result", 404, i, NoneVal, NoneVal,
                                    "Task not found", NoProgress)
          ELSE IF task.status = COMPLETED /\ Truthy(task.result_path)
          THEN IF FileExists(task.result_path)
               THEN api_resp' = Response("result", 200, i, NoneVal, task.result_path,
                                         NoneVal, NoProgress)
               ELSE api_resp' = Response("result", 404, i, NoneVal, NoneVal,
                                         "Result file not found", NoProgress)
          ELSE IF task.status = FAILED
          THEN api_resp' = Response("result", 500, i, NoneVal, NoneVal,
                                    IF Truthy(task.error_message)
                                    THEN task.error_message ELSE "Task failed",
                                    NoProgress)
          ELSE api_resp' = Response("result", 202, i, NoneVal, NoneVal,
                                    "Task not completed yet", NoProgress)
    /\ UNCHANGED <<procVars, now, webVars, task_storage, current_tasks, api_kind,
                   api_pc, histVars>>

\* min(current_tasks.keys(), key=lambda k: current_tasks[k]): a key with the
\* least time (the first of them in the dictionary's order, any of them here)
OldestCurrent == {k \in DOMAIN current_tasks :
                     \A j \in DOMAIN current_tasks : current_tasks[k] <= current_tasks[j]}

\* len([t for t in task_storage.values() if t.status == "completed"])
completed_tasks ==
    Cardinality({i \in DOMAIN task_storage : task_storage[i].status = COMPLETED})

\* GET /api/queue/status.  In the answer kept in api_resp, task_id is
\* current_task["id"] (0 when current_task is None), status is the status that
\* task has in task_storage, and progress is total_completed
api_get_queue_status ==
    /\ program = "api_server"
    /\ LoopIdle
    /\ IF DOMAIN current_tasks # {}
       THEN \E oldest_task_id \in OldestCurrent :
               LET task == get_task(task_storage, oldest_task_id)
               IN IF oldest_task_id \in DOMAIN task_storage
                  THEN api_resp' = Response("queue", 200, task.id, task.status,
                                            NoneVal, NoneVal, completed_tasks)
                  ELSE api_resp' = Response("queue", 200, 0, NoneVal, NoneVal,
                                            NoneVal, completed_tasks)
       ELSE api_resp' = Response("queue", 200, 0, NoneVal, NoneVal, NoneVal,
                                 completed_tasks)
    /\ UNCHANGED <<procVars, now, webVars, task_storage, current_tasks, api_kind,
                   api_pc, histVars>>

\* the handlers and coroutines of api_server.py that change the task storage
ApiWork ==
    \/ generate_tts
    \/ use_demo_voice
    \/ \E i \in Ids : process_tts_task(i)
    \/ \E i \in Ids : process_demo_voice_task(i)

\* the queries of api_server.py
ApiQuery ==
    \/ \E i \in Ids : get_task_status(i) \/ api_get_task_result(i)
    \/ api_get_queue_status

\* every operation of either program
Next == WebWork \/ WebQuery \/ ApiWork \/ ApiQuery

Spec == Init /\ [][Next]_vars

\* the programs without their queries, which change nothing but ret / api_resp
WorkNext == WebWork \/ ApiWork

WorkSpec == Init /\ [][WorkNext]_vars

\* the worker threads and the background coroutines are scheduled fairly, and
\* every Synthesize call returns or raises
Fairness ==
    /\ \A t \in Threads : WF_vars(_worker(t))
    /\ \A i \in Ids : WF_vars(process_tts_task(i))
    /\ \A i \in Ids : WF_vars(process_demo_voice_task(i))

FairSpec == Init /\ [][WorkNext]_vars /\ Fairness

\* webui.py with its main thread reaching the end of __main__
ExitSpec == Init /\ [][WorkNext \/ main_exit]_vars

\* webui.py with start_worker called by threads that run alongside each other
RaceSpec == Init /\ [][WorkNext \/ start_worker_test \/ start_worker_create]_vars

\* webui.py with the callers of gen_single_with_queue
PollNext == WorkNext \/ \E r \in 1..MaxTasks : gen_single_with_queue(r)

PollSpec == Init /\ [][PollNext]_vars /\ Fairness

\* webui.py with more jobs waiting than the history holds: EvictJobs callers
\* have submitted one after the other at the first clock reading, the worker
\* thread was started at import and has not yet taken a job
EvictJobs == max_history + 1
EvictInit ==
    /\ program = "webui"
    /\ uuid_fresh = TRUE
    /\ exited = FALSE
    /\ starting = 0
    /\ poll = [r \in 1..EvictJobs |-> "none"]
    /\ now = 1
    /\ tasks = [r \in 1..EvictJobs |-> NewTask(r, 1)]
    /\ pending = {}
    /\ queue = [r \in 1..EvictJobs |-> r]
    /\ current_task = 0
    /\ task_history = <<>>
    /\ execution_times = <<>>
    /\ worker_thread = 1
    /\ is_running = TRUE
    /\ lock = 0
    /\ wpc = [t \in Threads |-> IF t = 1 THEN "while" ELSE "unborn"]
    /\ wtask = [t \in Threads |-> 0]
    /\ wres = [t \in Threads |-> NoneVal]
    /\ ret = NoResult
    /\ snap = NoSnapshot
    /\ task_storage = << >>
    /\ current_tasks = << >>
    /\ api_kind = [i \in Ids |-> "none"]
    /\ api_pc = [i \in Ids |-> "none"]
    /\ api_resp = NoResponse
    /\ started = <<>>
    /\ overlapped = FALSE
    /\ dequeues = [r \in 1..EvictJobs |-> 0]
    /\ invocations = [r \in 1..EvictJobs |-> 0]
    /\ outcome = [r \in 1..EvictJobs |-> [kind |-> "none", val |-> NoneVal]]
    /\ finished = <<>>
    /\ recorded = <<>>
    /\ handed = [r \in 1..EvictJobs |-> r]
    /\ start_returned = TRUE

\* the behaviours from there in which every Synthesize call raises "boom" (the
\* jobs name a reference audio that cannot be read) and the caller of the
\* first job polls
EvictNext ==
    \/ \E t \in Threads :
          \/ w_while(t) \/ w_get(t) \/ w_start1(t) \/ w_start2(t)
          \/ w_infer(t) /\ wres'[t] = "boom"
          \/ w_fail1(t) \/ w_fail2(t) \/ w_fail3(t)
    \/ gen_single_with_queue(1)

EvictSpec == EvictInit /\ [][EvictNext]_vars

\* a busy webui.py with its queries
LongQuerySpec == LongInit /\ [][WebWork \/ WebQuery]_vars

\* webui.py at the capacity of its two deques
LongSpec == LongInit /\ [][WebWork]_vars

\* both programs with all their operations, uuid4 draws not assumed distinct
IdSpec == IdInit /\ [][Next]_vars

\* ================================================================= claims
\* the jobs of the process and their fields, whichever program it is
Jobs == IF program = "webui" THEN 1..Len(tasks) ELSE DOMAIN task_storage
Job(j) == IF program = "webui" THEN tasks[j] ELSE task_storage[j]
Terminal(st) == st \in {COMPLETED, FAILED}
StatusIn(tk, ts, j) ==
    IF program = "webui"
    THEN IF j \in 1..Len(tk) THEN tk[j].status ELSE "absent"
    ELSE IF j \in DOMAIN ts THEN ts[j].status ELSE "absent"
StartTimeIn(tk, ts, j) ==
    IF program = "webui"
    THEN IF j \in 1..Len(tk) THEN tk[j].start_time ELSE 0
    ELSE IF j \in DOMAIN ts THEN ts[j].start_time ELSE 0

\* the number of Synthesize invocations in flight
InFlight ==
    Cardinality({t \in Threads : wpc[t] = "infer"})
      + Cardinality({i \in Ids : api_pc[i] = "infer"})

\* C1: at most one invocation of Synthesize (tts.infer / tts.infer_fast) is in
\* flight at any time, whatever the submitters and the worker do.
C1_SingleFlight == InFlight <= 1

\* one invocation is in flight while another accepted job waits in the queue
C1_Witness ==
    /\ program = "webui"
    /\ InFlight = 1
    /\ queue # <<>>
    /\ overlapped

\* C2: when the add_task calls do not overlap in time, the worker moves the
\* jobs to Running in the order in which they were submitted.
C2_FifoOrder ==
    (program = "webui" /\ ~overlapped) =>
        \A k \in 1..Len(started) : started[k] = k

\* two jobs were submitted one after the other and both were started
C2_Witness ==
    /\ program = "webui"
    /\ ~overlapped
    /\ Len(started) = MaxTasks

InQueue(r) == Cardinality({k \in 1..Len(queue) : queue[k] = r})
InHistory(r) == Cardinality({k \in 1..Len(task_history) : task_history[k] = r})
HeldBy(r) == Cardinality({t \in Threads : wtask[t] = r})

\* C3: every job accepted by add_task is delivered to exactly one dequeue:
\* it is in the queue and not yet delivered, or delivered once and then held by
\* one worker or kept in the history; Synthesize is invoked at most once for
\* it, exactly once when it is terminal, and a failed job is not queued again.
C3_ExactlyOnce ==
    program = "webui" =>
        \A r \in (1..Len(tasks)) \ pending :
            /\ dequeues[r] <= 1
            /\ invocations[r] <= 1
            /\ InQueue(r) + HeldBy(r) + InHistory(r) = 1
            /\ dequeues[r] = (IF InQueue(r) = 1 THEN 0 ELSE 1)
            /\ Terminal(tasks[r].status) => invocations[r] = 1

\* concurrent submitters: two overlapping add_task calls, both jobs processed,
\* one of them failed
C3_Witness ==
    /\ program = "webui"
    /\ overlapped
    /\ Len(task_history) = MaxTasks
    /\ \E r \in 1..Len(tasks) : tasks[r].status = FAILED

\* the status changes a job may make in one step
StatusStep(a, b) ==
    \/ a = b
    \/ a = "absent" /\ b = QUEUED
    \/ a = QUEUED /\ b = RUNNING
    \/ a = RUNNING /\ Terminal(b)

\* C4: the status of a job only moves Queued -> Running -> Completed or Failed:
\* it never regresses, never becomes terminal without having been Running, and
\* never changes once terminal.
C4_StateMonotonic ==
    [][\A j \in 1..MaxTasks :
          StatusStep(StatusIn(tasks, task_storage, j),
                     StatusIn(tasks', task_storage', j))]_vars

\* one job ended Completed and another ended Failed
C4_Witness ==
    /\ \E j \in Jobs : Job(j).status = COMPLETED
    /\ \E j \in Jobs : Job(j).status = FAILED

\* C5: every job the worker dequeues eventually reaches Completed or Failed,
\* given that the Synthesize call returns or raises.
C5_DequeuedTerminates ==
    \A r \in 1..MaxTasks :
        (program = "webui" /\ \E t \in Threads : wtask[t] = r)
            ~> (r \in 1..Len(tasks) /\ Terminal(tasks[r].status))

\* the stop signal has been given and the worker still brings its dequeued job
\* to Completed
C5_Witness ==
    /\ program = "webui"
    /\ ~is_running
    /\ \E t \in Threads : wpc[t] = "done2" /\ tasks[wtask[t]].status = COMPLETED

\* C6: when Synthesize raises for a job, the worker thread stays in its loop;
\* a job's result follows from its own Synthesize call alone; and a job queued
\* behind a failure is still brought to a terminal state unless the worker is
\* told to stop.
C6_FailureIsolation ==
    /\ [][\A t \in Threads :
            (wpc[t] = "fail3" /\ wpc'[t] # "fail3") => wpc'[t] = "while"]_vars
    /\ [](program = "webui" =>
            \A r \in 1..Len(tasks) :
                /\ tasks[r].status = COMPLETED => outcome[r].kind = "return"
                /\ tasks[r].status = FAILED => outcome[r].kind = "raise")
    /\ \A q \in 1..MaxTasks :
        (/\ program = "webui"
         /\ \E f \in 1..MaxTasks : outcome[f].kind = "raise"
         /\ InQueue(q) > 0)
            ~> (\/ q \in 1..Len(tasks) /\ Terminal(tasks[q].status)
                \/ ~is_running)

\* the first job failed and the job queued behind it completed
C6_Witness ==
    /\ program = "webui"
    /\ Len(task_history) = 2
    /\ tasks[task_history[1]].status = FAILED
    /\ tasks[task_history[2]].status = COMPLETED
    /\ task_history[1] < task_history[2]

\* C7: in every state a reader can see, a Failed job carries the message its
\* Synthesize call raised, and a status query for it reports that message.
C7_FailedHasMessage ==
    /\ lock = 0 =>
        \A j \in Jobs :
            Job(j).status = FAILED =>
                /\ outcome[j].kind = "raise"
                /\ Job(j).error_message = outcome[j].val
    /\ (program = "webui" /\ lock = 0 /\ ret.task # 0) =>
            (tasks[ret.task].status = FAILED =>
                tasks[ret.task].error_message = outcome[ret.task].val)
    /\ (api_resp.op = "status" /\ api_resp.status = FAILED) =>
            api_resp.error = outcome[api_resp.task_id].val

\* C8: result_path is set only on a Completed job, error_message only on a
\* Failed job, never both, and neither while the job is Queued or Running.
C8_ResultErrorExclusive ==
    \A j \in Jobs :
        /\ Job(j).result_path # NoneVal => Job(j).status = COMPLETED
        /\ Job(j).error_message # NoneVal => Job(j).status = FAILED
        /\ ~(Job(j).result_path # NoneVal /\ Job(j).error_message # NoneVal)
        /\ Job(j).status \in {QUEUED, RUNNING} =>
              (Job(j).result_path = NoneVal /\ Job(j).error_message = NoneVal)

\* one job holds a result path and another an error message
C8_Witness ==
    /\ program = "webui"
    /\ \E j \in Jobs : Job(j).result_path # NoneVal
    /\ \E j \in Jobs : Job(j).error_message # NoneVal

\* C9: start_time is written only by the step that moves the job from Queued
\* to Running, hence at most once.
C9_StartedAtOnce ==
    [][\A j \in 1..MaxTasks :
          StartTimeIn(tasks', task_storage', j) # StartTimeIn(tasks, task_storage, j)
              => /\ StatusIn(tasks, task_storage, j) = QUEUED
                 /\ StatusIn(tasks', task_storage', j) = RUNNING]_vars

\* C10: whenever the registry lock is free, the current task, if any, is
\* Running, every task in the history is Completed or Failed, and the current
\* task is not in the history.
C10_RegistryConsistent ==
    (program = "webui" /\ lock = 0) =>
        /\ current_task # 0 => tasks[current_task].status = RUNNING
        /\ \A k \in 1..Len(task_history) : Terminal(tasks[task_history[k]].status)
        /\ current_task # 0 => InHistory(current_task) = 0

\* a job is current while an earlier one is in the history, the lock being free
C10_Witness ==
    /\ program = "webui"
    /\ lock = 0
    /\ current_task # 0
    /\ task_history # <<>>

\* the last n entries of a sequence (all of it when it is shorter)
LastN(q, n) == IF Len(q) <= n THEN q ELSE SubSeq(q, Len(q) - n + 1, Len(q))

\* C11: the history never holds more than max_history jobs; it is the most
\* recent min(n, max_history) of the n jobs that reached a terminal status, in
\* the order they reached it; and a lookup of the id of a job that was evicted
\* finds nothing.
C11_HistoryBound ==
    program = "webui" =>
        /\ Len(task_history) <= max_history
        /\ task_history = LastN(finished, max_history)
        /\ \A k \in 1..(Len(finished) - max_history) :
              LookupTask(Obj(finished[k]).id) = 0

\* more than max_history jobs were processed, failed and completed ones, and
\* the oldest of them has left the history
C11_Witness ==
    /\ program = "webui"
    /\ lock = 0
    /\ Len(finished) > max_history
    /\ Len(task_history) = max_history
    /\ task_history[1] # finished[1]
    /\ Obj(task_history[max_history]).status = FAILED

\* C12: execution_times never holds more than 20 durations and is the most
\* recent min(n, 20) of the n durations recorded, in the order of recording.
C12_ExecutionHistoryBound ==
    program = "webui" =>
        /\ Len(execution_times) <= execution_times_maxlen
        /\ execution_times = LastN(recorded, execution_times_maxlen)

\* more than 20 durations were recorded, not all equal, and the deque is full
C12_Witness ==
    /\ program = "webui"
    /\ Len(recorded) > execution_times_maxlen
    /\ Len(execution_times) = execution_times_maxlen
    /\ recorded[Len(recorded)] # recorded[1]

\* C13: a duration is recorded for every job that reaches a terminal status,
\* Completed or Failed: as many durations were recorded as jobs have ended.
C13_DurationPerTerminal ==
    program = "webui" => Len(recorded) = Len(finished)

\* the jobs add_task has put into the queue that are not Completed or Failed
Live == {r \in 1..Len(tasks) : r \notin pending /\ ~Terminal(tasks[r].status)}

\* C14: every snapshot get_queue_status returns accounts for each submitted job
\* that is not yet terminal exactly once, in queue_size or as the current task.
C14_SnapshotAccounts ==
    [][get_queue_status =>
          Cardinality(Live) =
              snap'.queue_size + (IF snap'.current_task # 0 THEN 1 ELSE 0)]_vars

\* a job with the id i was submitted: add_task has put it (webui), the request
\* was accepted (api_server)
Submitted(i) ==
    IF program = "webui"
    THEN \E r \in 1..Len(tasks) : r \notin pending /\ tasks[r].id = i
    ELSE i \in DOMAIN task_storage

\* C15: a query for an id that was never submitted answers not-found (None,
\* 404), and a query for the id of a job that is still queued answers with that
\* job and the status Queued, not with not-found.
C15_NotFoundDistinct ==
    [][/\ \A i \in QueryIds :
            get_task_result(i) =>
                /\ ~Submitted(i) => ret'.task = 0
                /\ (\E k \in 1..Len(queue) : tasks[queue[k]].id = i) =>
                       (ret'.task # 0 /\ tasks[ret'.task].status = QUEUED)
       /\ \A i \in Ids :
            get_task_status(i) =>
                /\ ~Submitted(i) => api_resp'.code = 404
                /\ (Submitted(i) /\ task_storage[i].status = QUEUED) =>
                       (api_resp'.code = 200 /\ api_resp'.status = QUEUED)]_vars

\* C16: get_task_result returns the current task when its id is the one asked
\* for, otherwise an entry of the history with that id, otherwise None; asked
\* for the id of a job that is Running or kept in the history it returns that
\* job.
C16_LookupOrder ==
    [][\A i \in QueryIds :
          get_task_result(i) =>
              /\ (current_task # 0 /\ Obj(current_task).id = i) =>
                     ret'.task = current_task
              /\ ret'.task # 0 =>
                     /\ Obj(ret'.task).id = i
                     /\ ret'.task = current_task \/ InHistory(ret'.task) > 0
              /\ ret'.task = 0 =>
                     /\ current_task = 0 \/ Obj(current_task).id # i
                     /\ \A k \in 1..Len(task_history) : Obj(task_history[k]).id # i
              /\ \A r \in 1..Len(tasks) :
                     (tasks[r].id = i /\ (tasks[r].status = RUNNING \/ InHistory(r) > 0))
                         => ret'.task = r]_vars

\* the last query returned the Running job while an earlier job is in the history
C16_Witness ==
    /\ program = "webui"
    /\ ret.task # 0
    /\ ret.task = current_task
    /\ tasks[ret.task].status = RUNNING
    /\ task_history # <<>>

\* C17: what get_task_result handed to a caller does not change afterwards, in
\* particular not when the worker moves the job on.
C17_ReturnsCopy ==
    [][(ret' = ret /\ ret.task > 0) => tasks'[ret.task] = tasks[ret.task]]_vars

\* C18: add_task never waits for a job to run: the lock it takes is held by
\* the worker only inside its three short blocks, never during Synthesize or
\* queue.get.  Its only effect is one new Task, Queued and created now, put at
\* the tail of the queue; the current task, the history and execution_times are
\* left alone, and so is every other Task.
C18_SubmitFrame ==
    /\ [](lock # 0 => wpc[lock] \in {"start2", "done2", "done3", "fail2", "fail3"})
    /\ [][/\ add_task_construct =>
               /\ Len(tasks') = Len(tasks) + 1
               /\ tasks'[Len(tasks')].status = QUEUED
               /\ tasks'[Len(tasks')].created_time = now'
               /\ tasks'[Len(tasks')].start_time = 0
               /\ tasks'[Len(tasks')].end_time = 0
               /\ \A r \in 1..Len(tasks) : tasks'[r] = tasks[r]
               /\ UNCHANGED <<queue, current_task, task_history, execution_times>>
          /\ \A r \in 1..MaxTasks :
               add_task_put(r) =>
                   /\ Len(queue') = Len(queue) + 1
                   /\ queue'[Len(queue')] = r
                   /\ \A k \in 1..Len(queue) : queue'[k] = queue[k]
                   /\ tasks[r].status = QUEUED
                   /\ UNCHANGED <<tasks, current_task, task_history,
                                  execution_times>>]_vars

\* a job was put behind a queued one while the worker was inside Synthesize for
\* none of them: both wait in submission order
C18_Witness ==
    /\ program = "webui"
    /\ pending = {}
    /\ Len(queue) = 2
    /\ queue[1] < queue[2]

\* C19: no two ids ever drawn for a job are equal.
C19_UniqueIds ==
    \A a, b \in 1..Len(handed) : a # b => handed[a] # handed[b]

\* C20: once stop_worker has cleared is_running, no job is taken from the
\* queue and no job is moved to Running.
C20_NoDequeueAfterStop ==
    [][(program = "webui" /\ ~is_running) =>
          (dequeues' = dequeues /\ started' = started)]_vars

\* C21: no job is Running when the process has exited: a job that was Running
\* at the shutdown signal was brought to Completed or Failed first.
C21_GracefulDrain ==
    exited => \A r \in 1..Len(tasks) : tasks[r].status # RUNNING

\* stop_worker was called after the last start of a worker
Stopped == worker_thread # 0 /\ ~is_running

\* C22: once stop_worker has been called, no job is added to the queue.
C22_NoSubmitAfterStop ==
    [][(program = "webui" /\ Stopped) => Len(queue') <= Len(queue)]_vars

\* C23: after stop_worker every worker thread eventually leaves its loop,
\* from the wait on an empty queue as well as from a Synthesize call that
\* returns, whether or not jobs are left in the queue.
C23_WorkerExits ==
    \A t \in Threads :
        (program = "webui" /\ ThreadIsAlive(t) /\ ~is_running) ~> ~ThreadIsAlive(t)

\* the worker has left its loop after the stop signal and a job is still queued
C23_Witness ==
    /\ program = "webui"
    /\ ~is_running
    /\ queue # <<>>
    /\ worker_thread # 0
    /\ wpc[worker_thread] = "dead"
    /\ task_history # <<>>

\* C24: at most one worker loop is alive, however the start_worker and
\* stop_worker calls are ordered and interleaved.
C24_OneWorker ==
    Cardinality({t \in Threads : ThreadIsAlive(t)}) <= 1

\* RemainingTime at the clock reading t as the design states it, as a numerator
\* over the number of retained durations
RemainingAt(t) ==
    LET n == Len(execution_times)
        total == Sum(execution_times)
        elapsed == t - Obj(current_task).start_time
    IN IF current_task = 0 \/ n = 0 THEN 0
       ELSE IF total >= elapsed * n THEN total - elapsed * n ELSE 0

\* C25: the remaining time in a snapshot is 0 when no job is running or no
\* duration is retained, otherwise max(0, mean - elapsed) for a clock reading
\* taken during the call; it is never negative.
C25_RemainingTime ==
    [][get_queue_status =>
          /\ snap'.estimated_remaining >= 0
          /\ snap'.den = (IF execution_times = <<>> THEN 1 ELSE Len(execution_times))
          /\ \E t \in now..now' : snap'.estimated_remaining = RemainingAt(t)]_vars

\* a snapshot with a job running whose elapsed time is below the mean
C25_Witness ==
    /\ program = "webui"
    /\ snap.taken
    /\ snap.current_task # 0
    /\ snap.estimated_remaining > 0

\* C26: the wait time in a snapshot is 0 when the queue is empty, otherwise
\* RemainingTime + queue length * mean of the retained durations.
C26_WaitTime ==
    [][get_queue_status =>
          /\ Len(queue) = 0 => snap'.estimated_wait_time = 0
          /\ Len(queue) > 0 =>
                \E t \in now..now' :
                    snap'.estimated_wait_time =
                        RemainingAt(t) + Len(queue) * Sum(execution_times)]_vars

\* a snapshot with a job running, a job queued and time left for the running one
C26_Witness ==
    /\ program = "webui"
    /\ snap.taken
    /\ snap.queue_size > 0
    /\ snap.current_task # 0
    /\ snap.estimated_wait_time > snap.queue_size * snap.average_execution_time

\* C27: a snapshot taken while no duration is retained has average, remaining
\* time and wait time 0, whatever the queue length and whether or not a job is
\* running, and the call returns.
C27_EmptyHistoryZero ==
    [][(get_queue_status /\ execution_times = <<>>) =>
          /\ snap'.taken
          /\ snap'.average_execution_time = 0
          /\ snap'.estimated_remaining = 0
          /\ snap'.estimated_wait_time = 0]_vars

\* a snapshot taken with no duration retained, a job running and a job queued
C27_Witness ==
    /\ program = "webui"
    /\ snap.taken
    /\ execution_times = <<>>
    /\ snap.queue_size > 0
    /\ snap.current_task # 0

\* C28: get_task_result and get_queue_status leave the queue, the current
\* task, every Task, the history and execution_times as they were.
C28_QueriesObserve ==
    [][(get_queue_status \/ \E i \in QueryIds : get_task_result(i)) =>
          UNCHANGED <<queue, pending, current_task, tasks, task_history,
                      execution_times>>]_vars

\* the last query returned a job of the history, and the job is still there
C28_Witness ==
    /\ program = "webui"
    /\ ret.task # 0
    /\ InHistory(ret.task) = 1
    /\ current_task # 0

\* C29: the lock is free whenever a Synthesize call is in flight, so that
\* get_queue_status (and get_task_result, which has the same guard) can run.
C29_LockFreeDuringInfer ==
    (program = "webui" /\ InFlight > 0) => (lock = 0 /\ ENABLED get_queue_status)

\* Synthesize is in flight for the second job, after the blocks of the first
C29_Witness ==
    /\ program = "webui"
    /\ InFlight = 1
    /\ lock = 0
    /\ current_task # 0
    /\ task_history # <<>>

\* C30: a caller that gives up polling changes nothing: its job stays where
\* it is, is brought to a terminal status as long as the worker is not told to
\* stop, and stays in the history once it is there.
C30_AbandonedJobCompletes ==
    /\ [][\A r \in 1..MaxTasks :
            (poll[r] = "loop" /\ poll'[r] = "timeout") =>
                UNCHANGED <<queue, tasks, current_task, task_history,
                            execution_times, wtask>>]_vars
    /\ [][\A r \in 1..MaxTasks :
            (poll[r] = "timeout" /\ InHistory(r) > 0) => (InHistory(r) > 0)']_vars
    /\ \A r \in 1..MaxTasks :
        (program = "webui" /\ poll[r] = "timeout")
            ~> (\/ r <= Len(tasks) /\ Terminal(tasks[r].status) /\ InHistory(r) > 0
                \/ ~is_running)

\* the caller timed out while its job was queued or running, and the job is
\* now Completed in the history
C30_Witness ==
    /\ program = "webui"
    /\ is_running
    /\ \E r \in 1..Len(tasks) :
        /\ poll[r] = "timeout"
        /\ tasks[r].status = COMPLETED
        /\ InHistory(r) > 0

\* C31: in every state a reader holding the lock can see, a Queued job has
\* start_time 0 and end_time 0, a Running job has end_time 0, and a Completed
\* or Failed job has created_time <= start_time <= end_time, with the two
\* readings taken by then.
C31_Timestamps ==
    lock = 0 =>
        \A j \in Jobs :
            /\ Job(j).created_time > 0
            /\ Job(j).status = QUEUED =>
                  (Job(j).start_time = 0 /\ Job(j).end_time = 0)
            /\ Job(j).status = RUNNING =>
                  (Job(j).start_time >= Job(j).created_time /\ Job(j).end_time = 0)
            /\ Terminal(Job(j).status) =>
                  /\ Job(j).created_time <= Job(j).start_time
                  /\ Job(j).start_time <= Job(j).end_time

\* a job ended after it was created, while another one is Running
C31_Witness ==
    /\ program = "webui"
    /\ lock = 0
    /\ \E j \in Jobs :
        /\ Terminal(Job(j).status)
        /\ Job(j).created_time < Job(j).end_time
    /\ \E j \in Jobs : Job(j).status = RUNNING /\ Job(j).start_time > 0

C33_NoTornRead ==
    \A r \in 1..MaxTasks : poll[r] \notin {"completed_unset", "failed_unset"}

\* the number of jobs that have reached Completed so far
CompletedSoFar ==
    Cardinality({k \in 1..Len(finished) : Obj(finished[k]).status = COMPLETED})

\* C34: total_completed of a snapshot is the number of jobs that have reached
\* Completed so far, and it is not below that of the snapshot before it.
C34_TotalCompleted ==
    [][get_queue_status =>
          /\ snap'.total_completed = CompletedSoFar
          /\ snap.taken => snap'.total_completed >= snap.total_completed]_vars

\* C35: a job that add_task has put in the queue of a started worker is
\* eventually dequeued once, run once and placed in the history with status
\* Completed or Failed, unless stop_worker is called.
C35_AcceptedTerminates ==
    \A r \in 1..MaxTasks :
        (program = "webui" /\ is_running /\ InQueue(r) > 0)
            ~> (\/ /\ r \in 1..Len(tasks)
                   /\ Terminal(tasks[r].status)
                   /\ InHistory(r) = 1
                   /\ dequeues[r] = 1
                   /\ invocations[r] = 1
                \/ ~is_running)

\* every job submitted is in the history and the worker was never stopped
C35_Witness ==
    /\ program = "webui"
    /\ is_running
    /\ Len(task_history) = MaxTasks
    /\ \A k \in 1..Len(task_history) : dequeues[task_history[k]] = 1
    /\ \A t \in Threads : wpc[t] \in {"unborn", "while", "get"}

\* C36: once start_worker has returned, and until stop_worker is called
\* again, a worker loop with is_running true exists or comes to exist.
C36_RestartEffective ==
    (program = "webui" /\ start_returned)
        ~> (\/ is_running /\ ThreadIsAlive(worker_thread)
            \/ ~start_returned)

\* C37: a job whose caller is still polling and that has terminated is found
\* by get_task_result, so the caller's next poll observes its terminal
\* status: it has not been dropped from the history.
C37_PolledJobRetained ==
    \A r \in 1..Len(tasks) :
        (/\ program = "webui"
         /\ r \in DOMAIN poll
         /\ poll[r] = "loop"
         /\ lock = 0
         /\ Terminal(tasks[r].status))
            => LookupTask(tasks[r].id) = r

\* C38: the current task the queue-status endpoint reports is a task whose
\* status is running, and no running task was created before it.
C38_CurrentIsRunning ==
    [][(api_get_queue_status /\ api_resp'.task_id # 0) =>
          /\ task_storage[api_resp'.task_id].status = RUNNING
          /\ \A j \in DOMAIN task_storage :
                task_storage[j].status = RUNNING =>
                    task_storage[api_resp'.task_id].created_time
                        <= task_storage[j].created_time]_vars

\* the status codes the checks of the two handlers raise
ValidateCodes ==
    {Validate(b, a) : b \in BOOLEAN, a \in {NoneVal, "missing.wav", "ref.wav"}} \ {0}
ValidateDemoCodes ==
    {ValidateDemo(b, d) : b \in BOOLEAN, d \in {NoneVal, "demo.wav"}} \ {0}

\* C39: a generate or demo-use request that a validation check rejects is
\* answered with a status code one of that handler's checks raises (400, 404).
C39_RejectCode ==
    [][/\ (generate_tts /\ api_resp'.task_id = 0) => api_resp'.code \in ValidateCodes
       /\ (use_demo_voice /\ api_resp'.task_id = 0) =>
             api_resp'.code \in ValidateDemoCodes]_vars

\* the ids whose entry of task_storage, of current_tasks or whose coroutine
\* differs between the two states of a step
Touched ==
    {i \in Ids :
        \/ (i \in DOMAIN task_storage) # (i \in DOMAIN task_storage')
        \/ /\ i \in DOMAIN task_storage
           /\ i \in DOMAIN task_storage'
           /\ task_storage[i] # task_storage'[i]
        \/ (i \in DOMAIN current_tasks) # (i \in DOMAIN current_tasks')
        \/ api_pc[i] # api_pc'[i]}

\* C40: a rejected generate or demo-use request changes neither task_storage
\* nor current_tasks and schedules nothing; an accepted one creates exactly one
\* task, queued, in current_tasks and scheduled; and a stored task is in
\* current_tasks exactly as long as it is not completed or failed.
C40_RequestFrame ==
    /\ [][(generate_tts \/ use_demo_voice) =>
            IF api_resp'.task_id = 0
            THEN UNCHANGED <<task_storage, current_tasks, api_pc, api_kind>>
            ELSE /\ Touched = {api_resp'.task_id}
                 /\ api_resp'.code = 200
                 /\ task_storage'[api_resp'.task_id].status = QUEUED
                 /\ api_resp'.task_id \in DOMAIN current_tasks'
                 /\ api_pc'[api_resp'.task_id] = "scheduled"]_vars
    /\ [](program = "api_server" =>
            \A i \in DOMAIN task_storage :
                (i \in DOMAIN current_tasks) <=> ~Terminal(task_storage[i].status))

\* a request was rejected after one task had ended and left current_tasks
\* while another, accepted, is still queued in it
C40_Witness ==
    /\ program = "api_server"
    /\ api_resp.op \in {"generate", "demo"}
    /\ api_resp.task_id = 0
    /\ \E i \in DOMAIN task_storage :
        Terminal(task_storage[i].status) /\ i \notin DOMAIN current_tasks
    /\ \E i \in DOMAIN task_storage :
        task_storage[i].status = QUEUED /\ i \in DOMAIN current_tasks

====
